---- MODULE Spec2Model ----
(***************************************************************************)
(* Model of the discovery-and-selection engine:                            *)
(*   internal/image       newestBuildSelector (Select, selectImages,       *)
(*                        getImagesByTags, sortImagesByDate)               *)
(*   internal/warehouses  discoverBranchHistory, getPathSelectors,         *)
(*                        matchesPathsFilters                              *)
(* Strings are sequences of one-character strings, so that prefixes,       *)
(* lexical order and glob matching are computed and not assumed.           *)
(***************************************************************************)
EXTENDS Integers, Sequences, FiniteSets, TLC

(***************************************************************************)
(* Bounds of the model                                                     *)
(***************************************************************************)
\* capacity of the process-wide permit pool metaSem
MetaSemCap == 2
\* creation timestamps range over 1..MaxTime
MaxTime == 2
\* discovery limits range over 0..MaxLimit
MaxLimit == 2

\* sortImagesByDate is applied to slices of at most MaxImages images
MaxImages == 3
\* include and exclude patterns together are at most MaxSelectors
MaxSelectors == 2
\* a revision has at most MaxPaths changed paths
MaxPaths == 2

\* a branch history has at most MaxCommits commits
MaxCommits == 45
\* the changed paths of the commits repeat with a period of at most MaxPeriod
MaxPeriod == 3

\* selectSemVerTags is handed at most MaxSemverTags tags
MaxSemverTags == 4

\* discoverCommits is handed at most MaxSubs subscriptions
MaxSubs == 3
\* discoverTagsFn and discoverBranchHistoryFn return at most MaxDiscovered items
MaxDiscovered == 1

\* repo.ListTags returns at most MaxListedTags tags
MaxListedTags == 22

\* the concurrently running Select calls
Calls == {"c1", "c2"}


Min(a, b) == IF a < b THEN a ELSE b

(***************************************************************************)
(* Strings                                                                 *)
(***************************************************************************)
\* the characters the model uses, in byte order
Alphabet == <<"*", "-", ".", "/", "0", "1", "2", "<", "=", ">", "?", "[",
              "a", "b", "c", "d", "e", "g", "i", "m", "n", "o", "r", "s",
              "t", "v", "x">>

Ord(ch) == CHOOSE i \in 1..Len(Alphabet) : Alphabet[i] = ch

\* Go's s < t on strings: bytewise lexical order, a proper prefix is smaller
RECURSIVE StrLess(_, _)
StrLess(s, t) ==
    IF t = <<>> THEN FALSE
    ELSE IF s = <<>> THEN TRUE
    ELSE IF Head(s) = Head(t) THEN StrLess(Tail(s), Tail(t))
    ELSE Ord(Head(s)) < Ord(Head(t))

StrGreater(s, t) == StrLess(t, s)

\* strings.HasPrefix
HasPrefix(s, p) == Len(p) <= Len(s) /\ SubSeq(s, 1, Len(p)) = p

\* strings.TrimPrefix
TrimPrefix(s, p) == IF HasPrefix(s, p) THEN SubSeq(s, Len(p) + 1, Len(s)) ELSE s

\* strings.Contains
Contains(s, sub) ==
    \E i \in 1..(Len(s) + 1) :
        i + Len(sub) - 1 <= Len(s) /\ SubSeq(s, i, i + Len(sub) - 1) = sub

(***************************************************************************)
(* Images and sortImagesByDate                                             *)
(***************************************************************************)
\* the less function handed to sort.Slice
sortLessNoTieBreak(a, b) == a.CreatedAt > b.CreatedAt

sortLessAscending(a, b) ==
    IF a.CreatedAt = b.CreatedAt
    THEN StrLess(a.Tag, b.Tag)
    ELSE a.CreatedAt < b.CreatedAt

sortLess(a, b) ==
    IF a.CreatedAt = b.CreatedAt
    THEN StrGreater(a.Tag, b.Tag)
    ELSE a.CreatedAt > b.CreatedAt

\* one pass of the inner loop of insertion sort: x moves left while it is
\* less than its left neighbour
RECURSIVE insertLeft(_, _)
insertLeft(s, x) ==
    IF s = <<>> THEN <<x>>
    ELSE IF sortLess(x, s[Len(s)])
         THEN Append(insertLeft(SubSeq(s, 1, Len(s) - 1), x), s[Len(s)])
         ELSE Append(s, x)

\* sort.Slice: for slices of at most 12 elements it is insertion sort
RECURSIVE sortFrom(_, _)
sortFrom(done, rest) ==
    IF rest = <<>> THEN done
    ELSE sortFrom(insertLeft(done, Head(rest)), Tail(rest))

sortImagesByDate(images) == sortFrom(<<>>, images)

(***************************************************************************)
(* The registry repository and the selector                                *)
(***************************************************************************)
VARIABLES
    repoTags,         \* what repoClient.getTags returns
    createdAt,        \* digest -> creation timestamp of the image
    platformDigests,  \* digests whose image matches the platform constraint
    allowRegex,       \* n.allowRegex
    ignore,           \* n.ignore
    platform,         \* n.platform
    discoveryLimit,   \* n.discoveryLimit
    metaSem,          \* permits of the package-level semaphore that are held
    pc,               \* call -> position of the Select call
    tags,             \* call -> the tags handed to getImagesByTags
    idx,              \* call -> position of the loop over tags
    ctx,              \* call -> state of the context derived for the call
    task,             \* call -> per tag, the state of its goroutine
    imageCh,          \* call -> buffered channel of fetched images
    errCh,            \* call -> one-slot error channel (0: empty, i: tag i)
    result,           \* call -> what Select returned
    digestLog,        \* call -> digests handed to getImageByDigest, in order
    sortArg,          \* the slice handed to sortImagesByDate
    sortRet,          \* the slice after sortImagesByDate
    matchArgs,        \* include and exclude patterns and the changed paths
    matchRet,         \* what matchesPathsFilters returned
    history,          \* the commits of the branch, newest first
    sub,              \* the subscription: IncludePaths and ExcludePaths
    skip,             \* the skip offset of discoverBranchHistory
    filteredCommits,  \* the commits discoverBranchHistory has accumulated
    commits,          \* the page of commits discoverBranchHistory is filtering
    pos,              \* the position in that page of the commit filtered next
    includePathSelectors, \* the compiled include selectors
    excludePathSelectors, \* the compiled exclude selectors
    walkPc,           \* position of discoverBranchHistory
    walkRet,          \* what discoverBranchHistory returned
    listLog,          \* skip offsets handed to ListCommits, in order
    diffLog,          \* commits handed to GetDiffPathsForCommitID, in order
    compileLog,       \* calls of getPathSelectors for either pattern list
    svArgs,           \* the tags and the constraint handed to selectSemVerTags
    svRet,            \* what selectSemVerTags returned
    listedTags,       \* what repo.ListTags returns
    tagSub,           \* the subscription handed to discoverTags
    dtTags,           \* discoverTags: the filtered and ordered tags
    dtPos,            \* discoverTags: position of the loop over the tags
    dtFiltered,       \* discoverTags: filteredTags
    dtSelectors,      \* discoverTags: the compiled include and exclude selectors
    dtPc,             \* position of discoverTags
    dtRet,            \* what discoverTags returned
    dtLog,            \* discoverTags: collaborator calls and compilations
    subs,             \* the subscriptions handed to discoverCommits
    dcPos,            \* discoverCommits: position of the loop over subs
    dcResults,        \* discoverCommits: results
    dcPc,             \* position of discoverCommits
    dcRet,            \* what discoverCommits returned
    dcLog             \* discoverCommits: collaborator calls, in order

selectorVars == <<repoTags, createdAt, platformDigests, allowRegex, ignore,
                  platform, discoveryLimit>>
callVars == <<metaSem, pc, tags, idx, ctx, task, imageCh, errCh, result,
              digestLog>>
sortVars == <<sortArg, sortRet>>
matchVars == <<matchArgs, matchRet>>
walkVars == <<history, sub, skip, filteredCommits, commits, pos,
              includePathSelectors, excludePathSelectors, walkPc, walkRet, listLog,
              diffLog, compileLog>>
semverVars == <<svArgs, svRet>>
tagsVars == <<listedTags, tagSub, dtTags, dtPos, dtFiltered, dtSelectors, dtPc,
              dtRet, dtLog>>
commitsVars == <<subs, dcPos, dcResults, dcPc, dcRet, dcLog>>

\* tags of the repository; "a" and "b" name the same image
TagUniverse == << <<"a">>, <<"a", "a">>, <<"b">>, <<"b", "a">>, <<"c">> >>

Digests == { <<"d", "0">>, <<"d", "1">>, <<"d", "b">>, <<"d", "c">> }

DigestOf(tag) ==
    IF tag \in { <<"a">>, <<"b">> } THEN <<"d", "0">>
    ELSE IF tag = <<"a", "a">> THEN <<"d", "1">>
    ELSE IF tag = <<"b", "a">> THEN <<"d", "b">>
    ELSE <<"d", "c">>

\* an absent image (a nil *Image)
NilImage == [Tag |-> <<>>, Digest |-> <<>>, CreatedAt |-> 0]

\* a nil *regexp.Regexp; a compiled one is the set of strings it matches
NilRegex == [compiled |-> FALSE, matches |-> {}]

NoPlatform == "none"

NoErr == [kind |-> "none", key |-> <<>>]
Err(kind, key) == [kind |-> kind, key |-> key]

\* repoClient.getImageByTag(ctx, tag, nil), when it succeeds
getImageByTag(tag) ==
    [Tag |-> tag, Digest |-> DigestOf(tag), CreatedAt |-> createdAt[DigestOf(tag)]]

\* repoClient.getImageByDigest(ctx, digest, n.platform), when it succeeds:
\* nil when the image does not match the platform
getImageByDigest(digest) ==
    IF digest \in platformDigests
    THEN [Tag |-> <<>>, Digest |-> digest, CreatedAt |-> createdAt[digest]]
    ELSE NilImage

allowsTag(tag, regex) == ~regex.compiled \/ tag \in regex.matches

ignoresTag(tag, ign) == \E i \in 1..Len(ign) : ign[i] = tag

(***************************************************************************)
(* selectImages, up to the call of getImagesByTags                         *)
(***************************************************************************)
RECURSIVE matchedTags(_)
matchedTags(ts) ==
    IF ts = <<>> THEN <<>>
    ELSE IF allowsTag(Head(ts), allowRegex) /\ ~ignoresTag(Head(ts), ignore)
         THEN <<Head(ts)>> \o matchedTags(Tail(ts))
         ELSE matchedTags(Tail(ts))

filteredTags(ts) ==
    IF allowRegex.compiled \/ Len(ignore) > 0 THEN matchedTags(ts) ELSE ts

(***************************************************************************)
(* Select, from the return of selectImages                                 *)
(***************************************************************************)
effectiveLimitNoZero(images) == Min(discoveryLimit, Len(images))

effectiveLimit(images) ==
    IF discoveryLimit = 0 \/ discoveryLimit > Len(images)
    THEN Len(images)
    ELSE discoveryLimit

withTagOfDigest(discoveredImage, image) == discoveredImage

\* discoveredImage.Tag = image.Tag
withTag(discoveredImage, image) == [discoveredImage EXCEPT !.Tag = image.Tag]

stopWalkNever(discoveredImages, limit) == FALSE

\* len(discoveredImages) >= limit
stopWalk(discoveredImages, limit) == Len(discoveredImages) >= limit

\* the loop over the sorted images under a platform constraint; bad is the
\* digest for which getImageByDigest returns an error (<<>>: none)
RECURSIVE platformWalk(_, _, _, _, _)
platformWalk(images, limit, discoveredImages, calls, bad) ==
    IF images = <<>> \/ stopWalk(discoveredImages, limit)
    THEN [images |-> discoveredImages, err |-> NoErr, calls |-> calls]
    ELSE LET image == Head(images)
             discoveredImage == getImageByDigest(image.Digest)
         IN  IF image.Digest = bad
             THEN [images |-> <<>>,
                   err |-> Err("getImageByDigest", image.Digest),
                   calls |-> Append(calls, image.Digest)]
             ELSE IF discoveredImage = NilImage
             THEN platformWalk(Tail(images), limit, discoveredImages,
                               Append(calls, image.Digest), bad)
             ELSE platformWalk(Tail(images), limit,
                               Append(discoveredImages,
                                      withTag(discoveredImage, image)),
                               Append(calls, image.Digest), bad)

\* Select after selectImages returned images without error
selectFrom(images, bad) ==
    IF Len(images) = 0
    THEN [images |-> <<>>, err |-> NoErr, calls |-> <<>>]
    ELSE IF platform = NoPlatform
    THEN [images |-> SubSeq(images, 1, effectiveLimit(images)),
          err |-> NoErr, calls |-> <<>>]
    ELSE platformWalk(images, effectiveLimit(images), <<>>, <<>>, bad)

(***************************************************************************)
(* getImagesByTags: the fan-out over tags under the shared semaphore       *)
(***************************************************************************)
IdleTask == [st |-> "idle", out |-> "none"]

\* the goroutines of call c that have been started
Spawned(c) == {i \in 1..Len(tags[c]) : task[c][i].st # "idle"}

\* the goroutines of call c inside getImageByTag
Fetching(c) == {i \in 1..Len(tags[c]) : task[c][i].st = "fetching"}

\* the goroutines of call c that have not yet run wg.Done
Running(c) == {i \in Spawned(c) : task[c][i].st # "done"}

\* the goroutines of call c that hold a permit
Holding(c) == {i \in Spawned(c) : task[c][i].st \in {"fetching", "returned"}}

\* defer cancel() of getImagesByTags
cancelled(c) == IF ctx[c] = "live" THEN "cancelled" ELSE ctx[c]

Return(c, res) ==
    /\ pc' = [pc EXCEPT ![c] = "done"]
    /\ result' = [result EXCEPT ![c] = [images |-> res.images, err |-> res.err]]
    /\ digestLog' = [digestLog EXCEPT ![c] = res.calls]
    /\ ctx' = [ctx EXCEPT ![c] = cancelled(c)]

\* Select up to the first iteration of the loop of getImagesByTags
SelectStart(c) ==
    /\ pc[c] = "start"
    /\ \E getTagsFails \in BOOLEAN :
         IF getTagsFails
         THEN /\ Return(c, [images |-> <<>>, err |-> Err("getTags", <<>>),
                            calls |-> <<>>])
              /\ UNCHANGED <<tags, idx, task>>
         ELSE IF Len(repoTags) = 0 \/ Len(filteredTags(repoTags)) = 0
         THEN /\ Return(c, [images |-> <<>>, err |-> NoErr, calls |-> <<>>])
              /\ UNCHANGED <<tags, idx, task>>
         ELSE /\ tags' = [tags EXCEPT ![c] = filteredTags(repoTags)]
              /\ idx' = [idx EXCEPT ![c] = 1]
              /\ task' = [task EXCEPT
                            ![c] = [i \in 1..Len(filteredTags(repoTags)) |-> IdleTask]]
              /\ pc' = [pc EXCEPT ![c] = "acquire"]
              /\ UNCHANGED <<result, digestLog, ctx>>
    /\ UNCHANGED <<metaSem, imageCh, errCh>>
    /\ UNCHANGED <<selectorVars, sortVars, matchVars, walkVars, semverVars,
                   tagsVars, commitsVars>>

permitFreeAlways == TRUE

\* metaSem has a permit to give
permitFree == metaSem < MetaSemCap

ctxLiveAlways(c) == TRUE

\* ctx is not done when metaSem.Acquire looks at it
ctxLive(c) == ctx[c] = "live"

\* metaSem.Acquire returns nil; wg.Add(1); go func(tag)
\* (Acquire checks ctx.Done() before it takes a permit and again when it is
\* woken with one: with ctx done it returns ctx.Err())
AcquireOk(c) ==
    /\ pc[c] = "acquire"
    /\ permitFree
    /\ ctxLive(c)
    /\ metaSem' = metaSem + 1
    /\ task' = [task EXCEPT ![c][idx[c]] = [st |-> "fetching", out |-> "none"]]
    /\ idx' = [idx EXCEPT ![c] = idx[c] + 1]
    /\ pc' = [pc EXCEPT ![c] = IF idx[c] = Len(tags[c]) THEN "wait" ELSE "acquire"]
    /\ UNCHANGED <<tags, ctx, imageCh, errCh, result, digestLog>>
    /\ UNCHANGED <<selectorVars, sortVars, matchVars, walkVars, semverVars,
                   tagsVars, commitsVars>>

\* metaSem.Acquire returns ctx.Err(): getImagesByTags returns at once
AcquireFail(c) ==
    /\ pc[c] = "acquire"
    /\ ctx[c] # "live"
    /\ Return(c, [images |-> <<>>, err |-> Err("acquire", tags[c][idx[c]]),
                  calls |-> <<>>])
    /\ UNCHANGED <<metaSem, tags, idx, task, imageCh, errCh>>
    /\ UNCHANGED <<selectorVars, sortVars, matchVars, walkVars, semverVars,
                   tagsVars, commitsVars>>

\* getImageByTag returns in goroutine i of call c, and the goroutine reports
TaskFetch(c, i) ==
    /\ i \in Fetching(c)
    /\ \E out \in {"ok", "err", "nil"} :
         /\ task' = [task EXCEPT ![c][i] = [st |-> "returned", out |-> out]]
         /\ imageCh' = [imageCh EXCEPT
                          ![c] = IF out = "ok"
                                 THEN Append(imageCh[c], getImageByTag(tags[c][i]))
                                 ELSE imageCh[c]]
         /\ errCh' = [errCh EXCEPT
                        ![c] = IF out = "err" /\ errCh[c] = 0 THEN i ELSE errCh[c]]
         /\ ctx' = [ctx EXCEPT
                      ![c] = IF out = "err" /\ errCh[c] = 0 THEN cancelled(c) ELSE ctx[c]]
    /\ UNCHANGED <<metaSem, pc, tags, idx, result, digestLog>>
    /\ UNCHANGED <<selectorVars, sortVars, matchVars, walkVars, semverVars,
                   tagsVars, commitsVars>>

releasedNothing(held) == held

\* the permits held after Release(1)
released(held) == held - 1

\* defer metaSem.Release(1)
TaskRelease(c, i) ==
    /\ i \in Spawned(c)
    /\ task[c][i].st = "returned"
    /\ metaSem' = released(metaSem)
    /\ task' = [task EXCEPT ![c][i].st = "released"]
    /\ UNCHANGED <<pc, tags, idx, ctx, imageCh, errCh, result, digestLog>>
    /\ UNCHANGED <<selectorVars, sortVars, matchVars, walkVars, semverVars,
                   tagsVars, commitsVars>>

\* defer wg.Done()
TaskDone(c, i) ==
    /\ i \in Spawned(c)
    /\ task[c][i].st = "released"
    /\ task' = [task EXCEPT ![c][i].st = "done"]
    /\ UNCHANGED <<metaSem, pc, tags, idx, ctx, imageCh, errCh, result, digestLog>>
    /\ UNCHANGED <<selectorVars, sortVars, matchVars, walkVars, semverVars,
                   tagsVars, commitsVars>>

selectImagesUnsorted(images) == images

\* selectImages after getImagesByTags returned images
selectImages(images) == sortImagesByDate(images)

\* wg.Wait() returns; the rest of getImagesByTags, selectImages and Select
Join(c) ==
    /\ pc[c] = "wait"
    /\ Running(c) = {}
    /\ \E bad \in Digests \cup {<<>>} :
         Return(c, IF errCh[c] # 0
                   THEN [images |-> <<>>, err |-> Err("getImageByTag", tags[c][errCh[c]]),
                         calls |-> <<>>]
                   ELSE IF Len(imageCh[c]) = 0
                   THEN [images |-> <<>>, err |-> NoErr, calls |-> <<>>]
                   ELSE selectFrom(selectImages(imageCh[c]), bad))
    /\ UNCHANGED <<metaSem, tags, idx, task, imageCh, errCh>>
    /\ UNCHANGED <<selectorVars, sortVars, matchVars, walkVars, semverVars,
                   tagsVars, commitsVars>>

\* the context handed to Select is cancelled while the call runs
CancelParent(c) ==
    /\ pc[c] \in {"acquire", "wait"}
    /\ ctx[c] = "live"
    /\ ctx' = [ctx EXCEPT ![c] = "parentCancelled"]
    /\ UNCHANGED <<metaSem, pc, tags, idx, task, imageCh, errCh, result, digestLog>>
    /\ UNCHANGED <<selectorVars, sortVars, matchVars, walkVars, semverVars,
                   tagsVars, commitsVars>>

\* sortImagesByDate is not being called
SortIdle ==
    /\ sortArg = <<>>
    /\ sortRet = [done |-> FALSE, images |-> <<>>]

NoMatchRet == [done |-> FALSE, match |-> FALSE, err |-> NoErr, evals |-> <<>>]

\* matchesPathsFilters is not being called
MatchIdle ==
    /\ matchArgs = [include |-> <<>>, exclude |-> <<>>, diffs |-> <<>>]
    /\ matchRet = NoMatchRet

\* a nil pattern list, and the list of the given patterns
NilPaths == [isNil |-> TRUE, items |-> <<>>]
PathList(items) == [isNil |-> FALSE, items |-> items]

\* discoverBranchHistory is not being called (the repository apart)
WalkLocalsIdle ==
    /\ sub = [IncludePaths |-> NilPaths, ExcludePaths |-> NilPaths]
    /\ skip = 0
    /\ filteredCommits = <<>>
    /\ commits = <<>>
    /\ pos = 1
    /\ includePathSelectors = <<>>
    /\ excludePathSelectors = <<>>
    /\ walkPc = "done"
    /\ walkRet = [commits |-> <<>>, err |-> NoErr]
    /\ listLog = <<>>
    /\ diffLog = <<>>
    /\ compileLog = [include |-> 0, exclude |-> 0]

\* discoverBranchHistory is not being called
WalkIdle ==
    /\ history = <<>>
    /\ WalkLocalsIdle

\* selectSemVerTags is not being called
SemverIdle ==
    /\ svArgs = [tags |-> <<>>, constraint |-> <<>>]
    /\ svRet = [done |-> FALSE, tags |-> <<>>, err |-> NoErr]

\* a subscription that selects nothing and filters nothing
NoTagSub ==
    [CommitSelectionStrategy |-> "NewestFromBranch", AllowTags |-> <<>>,
     IgnoreTags |-> <<>>, SemverConstraint |-> <<>>,
     IncludePaths |-> NilPaths, ExcludePaths |-> NilPaths]

\* discoverTags is not being called
TagsIdle ==
    /\ listedTags = <<>>
    /\ tagSub = NoTagSub
    /\ dtTags = <<>>
    /\ dtPos = 1
    /\ dtFiltered = <<>>
    /\ dtSelectors = [include |-> <<>>, exclude |-> <<>>]
    /\ dtPc = "done"
    /\ dtRet = [tags |-> <<>>, err |-> NoErr]
    /\ dtLog = <<>>

\* discoverCommits is not being called
CommitsIdle ==
    /\ subs = <<>>
    /\ dcPos = 1
    /\ dcResults = <<>>
    /\ dcPc = "done"
    /\ dcRet = [results |-> <<>>, err |-> NoErr]
    /\ dcLog = <<>>

InitCalls ==
    /\ metaSem = 0
    /\ pc = [c \in Calls |-> "start"]
    /\ tags = [c \in Calls |-> <<>>]
    /\ idx = [c \in Calls |-> 0]
    /\ ctx = [c \in Calls |-> "live"]
    /\ task = [c \in Calls |-> <<>>]
    /\ imageCh = [c \in Calls |-> <<>>]
    /\ errCh = [c \in Calls |-> 0]
    /\ result = [c \in Calls |-> [images |-> <<>>, err |-> NoErr]]
    /\ digestLog = [c \in Calls |-> <<>>]

\* a regular expression that matches the tags made of the letter a
RegexA == [compiled |-> TRUE, matches |-> { <<"a">>, <<"a", "a">> }]

Linux == "linux/arm64"

\* two Select calls of one selector run at once over a repository of two tags
Init ==
    /\ repoTags = SubSeq(TagUniverse, 1, 2)
    /\ createdAt = [d \in Digests |-> 1]
    /\ platformDigests = {}
    /\ allowRegex = NilRegex
    /\ ignore = <<>>
    /\ platform = NoPlatform
    /\ discoveryLimit = 0
    /\ InitCalls
    /\ SortIdle
    /\ MatchIdle
    /\ WalkIdle
    /\ SemverIdle
    /\ TagsIdle
    /\ CommitsIdle

\* one Select call over a repository of three tags, for every selector
InitSelect ==
    /\ repoTags = SubSeq(TagUniverse, 1, 3)
    /\ createdAt \in {f \in [Digests -> 1..MaxTime] :
                        f[<<"d", "b">>] = 1 /\ f[<<"d", "c">>] = 1}
    /\ \/ platform = NoPlatform /\ platformDigests = {}
       \/ platform = Linux /\ platformDigests \in SUBSET { <<"d", "0">>, <<"d", "1">> }
    /\ discoveryLimit \in 0..MaxLimit
    /\ \/ allowRegex = NilRegex /\ ignore = <<>>
       \/ allowRegex = NilRegex /\ ignore = << <<"a", "a">> >>
       \/ allowRegex = RegexA /\ ignore = <<>>
    /\ metaSem = 0
    /\ pc = [c \in Calls |-> IF c = "c1" THEN "start" ELSE "done"]
    /\ tags = [c \in Calls |-> <<>>]
    /\ idx = [c \in Calls |-> 0]
    /\ ctx = [c \in Calls |-> IF c = "c1" THEN "live" ELSE "cancelled"]
    /\ task = [c \in Calls |-> <<>>]
    /\ imageCh = [c \in Calls |-> <<>>]
    /\ errCh = [c \in Calls |-> 0]
    /\ result = [c \in Calls |-> [images |-> <<>>, err |-> NoErr]]
    /\ digestLog = [c \in Calls |-> <<>>]
    /\ SortIdle
    /\ MatchIdle
    /\ WalkIdle
    /\ SemverIdle
    /\ TagsIdle
    /\ CommitsIdle

Reverse(s) == [i \in 1..Len(s) |-> s[Len(s) + 1 - i]]

\* one Select call at the return of wg.Wait(): every tag of the repository
\* was fetched, and the images arrived in listing order or in reverse
InitLimit ==
    /\ \E n \in 1..Len(TagUniverse) : repoTags = SubSeq(TagUniverse, 1, n)
    /\ createdAt \in [Digests -> 1..MaxTime]
    /\ \/ platform = NoPlatform /\ platformDigests = {}
       \/ platform = Linux /\ platformDigests \in SUBSET Digests
    /\ discoveryLimit \in 0..MaxLimit
    /\ allowRegex = NilRegex
    /\ ignore = <<>>
    /\ metaSem = 0
    /\ pc = [c \in Calls |-> IF c = "c1" THEN "wait" ELSE "done"]
    /\ tags = [c \in Calls |-> IF c = "c1" THEN repoTags ELSE <<>>]
    /\ idx = [c \in Calls |-> IF c = "c1" THEN Len(repoTags) + 1 ELSE 0]
    /\ ctx = [c \in Calls |-> IF c = "c1" THEN "live" ELSE "cancelled"]
    /\ task = [c \in Calls |->
                 IF c = "c1"
                 THEN [i \in 1..Len(repoTags) |-> [st |-> "done", out |-> "ok"]]
                 ELSE <<>>]
    /\ \E reversed \in BOOLEAN :
         imageCh = [c \in Calls |->
                      IF c = "c1"
                      THEN IF reversed
                           THEN Reverse([i \in 1..Len(repoTags) |-> getImageByTag(repoTags[i])])
                           ELSE [i \in 1..Len(repoTags) |-> getImageByTag(repoTags[i])]
                      ELSE <<>>]
    /\ errCh = [c \in Calls |-> 0]
    /\ result = [c \in Calls |-> [images |-> <<>>, err |-> NoErr]]
    /\ digestLog = [c \in Calls |-> <<>>]
    /\ SortIdle
    /\ MatchIdle
    /\ WalkIdle
    /\ SemverIdle
    /\ TagsIdle
    /\ CommitsIdle

Next ==
    \E c \in Calls :
        \/ SelectStart(c)
        \/ AcquireOk(c)
        \/ AcquireFail(c)
        \/ CancelParent(c)
        \/ Join(c)
        \/ \E i \in 1..Len(tags[c]) : TaskFetch(c, i)
        \/ \E i \in 1..Len(tags[c]) : TaskRelease(c, i)
        \/ \E i \in 1..Len(tags[c]) : TaskDone(c, i)

vars == <<selectorVars, callVars, sortVars, matchVars, walkVars, semverVars,
          tagsVars, commitsVars>>

Spec == Init /\ [][Next]_vars

\* an Acquire that waits returns once its ctx is done
SpecCancel == Init /\ [][Next]_vars /\ \A c \in Calls : WF_vars(AcquireFail(c))

SpecSelect == InitSelect /\ [][Next]_vars

NextLimit == Join("c1")

SpecLimit == InitLimit /\ [][NextLimit]_vars

(***************************************************************************)
(* sortImagesByDate on its own                                             *)
(***************************************************************************)
\* sequences over S of length at most n
SeqsUpTo(S, n) == UNION {[1..k -> S] : k \in 0..n}

\* images of the first three tags with any timestamp
SortImages ==
    {[Tag |-> TagUniverse[i], Digest |-> DigestOf(TagUniverse[i]), CreatedAt |-> t] :
        i \in 1..3, t \in 1..MaxTime}

\* no Select call runs
CallsIdle ==
    /\ repoTags = <<>>
    /\ createdAt = [d \in Digests |-> 1]
    /\ platformDigests = {}
    /\ allowRegex = NilRegex
    /\ ignore = <<>>
    /\ platform = NoPlatform
    /\ discoveryLimit = 0
    /\ metaSem = 0
    /\ pc = [c \in Calls |-> "done"]
    /\ tags = [c \in Calls |-> <<>>]
    /\ idx = [c \in Calls |-> 0]
    /\ ctx = [c \in Calls |-> "cancelled"]
    /\ task = [c \in Calls |-> <<>>]
    /\ imageCh = [c \in Calls |-> <<>>]
    /\ errCh = [c \in Calls |-> 0]
    /\ result = [c \in Calls |-> [images |-> <<>>, err |-> NoErr]]
    /\ digestLog = [c \in Calls |-> <<>>]

InitSort ==
    /\ sortArg \in SeqsUpTo(SortImages, MaxImages)
    /\ sortRet = [done |-> FALSE, images |-> <<>>]
    /\ CallsIdle
    /\ MatchIdle
    /\ WalkIdle
    /\ SemverIdle
    /\ TagsIdle
    /\ CommitsIdle

\* sortImagesByDate(images)
Sort ==
    /\ ~sortRet.done
    /\ sortRet' = [done |-> TRUE, images |-> sortImagesByDate(sortArg)]
    /\ UNCHANGED <<sortArg, selectorVars, callVars, matchVars, walkVars,
                   semverVars, tagsVars, commitsVars>>

NextSort == Sort

SpecSort == InitSort /\ [][NextSort]_vars

(***************************************************************************)
(* getPathSelectors: patterns compiled to path selectors                   *)
(***************************************************************************)
regexpPrefix == <<"r", "e", "g", "e", "x", "p", ":">>
regexPrefix == <<"r", "e", "g", "e", "x", ":">>
globPrefix == <<"g", "l", "o", "b", ":">>

\* regexp.Compile fails: of the characters of the model only an unclosed
\* bracket makes an expression invalid
regexInvalid(expr) == \E i \in 1..Len(expr) : expr[i] = "["

\* regex.MatchString(path): the expression matches somewhere in the path
\* (expressions of the model are made of literals and ".")
regexMatchString(expr, path) ==
    \E i \in 1..(Len(path) + 1) :
        /\ i + Len(expr) - 1 <= Len(path)
        /\ \A k \in 1..Len(expr) : expr[k] = "." \/ expr[k] = path[i + k - 1]

\* filepath.Match reports ErrBadPattern: of the characters of the model only
\* an unclosed bracket makes a pattern malformed
globBadPattern(pattern) == \E i \in 1..Len(pattern) : pattern[i] = "["

\* filepath.Match for a well-formed pattern: * and ? do not match a separator
RECURSIVE globMatch(_, _)
globMatch(pattern, name) ==
    IF pattern = <<>> THEN name = <<>>
    ELSE IF Head(pattern) = "*"
    THEN \/ globMatch(Tail(pattern), name)
         \/ name # <<>> /\ Head(name) # "/" /\ globMatch(pattern, Tail(name))
    ELSE IF Head(pattern) = "?"
    THEN name # <<>> /\ Head(name) # "/" /\ globMatch(Tail(pattern), Tail(name))
    ELSE name # <<>> /\ Head(name) = Head(pattern) /\ globMatch(Tail(pattern), Tail(name))

\* the elements of a path between separators
RECURSIVE splitPath(_)
splitPath(path) ==
    IF ~Contains(path, <<"/">>) THEN <<path>>
    ELSE LET i == CHOOSE k \in 1..Len(path) :
                     path[k] = "/" /\ \A j \in 1..(k - 1) : path[j] # "/"
         IN  <<SubSeq(path, 1, i - 1)>> \o splitPath(SubSeq(path, i + 1, Len(path)))

RECURSIVE joinPath(_)
joinPath(elems) ==
    IF elems = <<>> THEN <<>>
    ELSE IF Len(elems) = 1 THEN elems[1]
    ELSE elems[1] \o <<"/">> \o joinPath(Tail(elems))

\* number of leading elements two paths share
RECURSIVE commonElems(_, _)
commonElems(a, b) ==
    IF a = <<>> \/ b = <<>> \/ Head(a) # Head(b) THEN 0
    ELSE 1 + commonElems(Tail(a), Tail(b))

isSlashed(path) == path # <<>> /\ Head(path) = "/"

\* filepath.Rel(basePath, path); the paths of the model are clean, so that
\* filepath.Clean changes nothing but "" into "."
relPath(basePath, path) ==
    IF basePath = path
    THEN [rel |-> <<".">>, err |-> FALSE]
    ELSE IF isSlashed(basePath) # isSlashed(path)
    THEN [rel |-> <<>>, err |-> TRUE]
    ELSE LET base == IF basePath = <<>> THEN <<>> ELSE splitPath(basePath)
             targ == splitPath(path)
             n == commonElems(base, targ)
             up == [i \in 1..(Len(base) - n) |-> <<".", ".">>]
         IN  [rel |-> joinPath(up \o SubSeq(targ, n + 1, Len(targ))), err |-> FALSE]

\* one compiled selector applied to a path: (selected, error)
selector(sel, path) ==
    IF sel.kind = "regex"
    THEN [selected |-> regexMatchString(sel.arg, path), err |-> FALSE]
    ELSE IF sel.kind = "glob"
    THEN IF globBadPattern(sel.arg)
         THEN [selected |-> FALSE, err |-> TRUE]
         ELSE [selected |-> globMatch(sel.arg, path), err |-> FALSE]
    ELSE IF relPath(sel.arg, path).err
         THEN [selected |-> FALSE, err |-> TRUE]
         ELSE [selected |-> ~Contains(relPath(sel.arg, path).rel, <<".", ".">>),
               err |-> FALSE]

\* the selector of one pattern, by its prefix
pathSelector(selectorStr) ==
    IF HasPrefix(selectorStr, regexpPrefix)
    THEN [kind |-> "regex", arg |-> TrimPrefix(selectorStr, regexpPrefix)]
    ELSE IF HasPrefix(selectorStr, regexPrefix)
    THEN [kind |-> "regex", arg |-> TrimPrefix(selectorStr, regexPrefix)]
    ELSE IF HasPrefix(selectorStr, globPrefix)
    THEN [kind |-> "glob", arg |-> TrimPrefix(selectorStr, globPrefix)]
    ELSE [kind |-> "base", arg |-> selectorStr]

\* getPathSelectors(selectorStrs): an invalid regular expression fails the
\* whole compilation
getPathSelectors(selectorStrs) ==
    IF \E i \in 1..Len(selectorStrs) :
           /\ pathSelector(selectorStrs[i]).kind = "regex"
           /\ regexInvalid(pathSelector(selectorStrs[i]).arg)
    THEN [selectors |-> <<>>, err |-> TRUE]
    ELSE [selectors |-> [i \in 1..Len(selectorStrs) |-> pathSelector(selectorStrs[i])],
          err |-> FALSE]

(***************************************************************************)
(* matchesPathsFilters                                                     *)
(***************************************************************************)
Eval(list, k, p, res) == [list |-> list, sel |-> k, path |-> p, err |-> res.err]

abortsOnErrNever(res) == FALSE

\* if ...; err != nil { return false, err }
abortsOnErr(res) == res.err

\* the loop over the selectors of one list for path p, from selector k: it
\* ends at the first selector that reports an error or selects the path
RECURSIVE scanSelectors(_, _, _, _, _, _)
scanSelectors(list, selectors, k, p, path, evals) ==
    IF k > Len(selectors)
    THEN [selected |-> FALSE, err |-> NoErr, evals |-> evals]
    ELSE LET res == selector(selectors[k], path)
             seen == Append(evals, Eval(list, k, p, res))
         IN  IF abortsOnErr(res)
             THEN [selected |-> FALSE, err |-> Err(list, <<k, p>>), evals |-> seen]
             ELSE IF res.selected
             THEN [selected |-> TRUE, err |-> NoErr, evals |-> seen]
             ELSE scanSelectors(list, selectors, k + 1, p, path, seen)

includeConfiguredAlways(includeSelectors) == TRUE

\* len(includeSelectors) > 0
includeConfigured(includeSelectors) == Len(includeSelectors) > 0

\* pathLoop, from path p
RECURSIVE pathLoop(_, _, _, _, _)
pathLoop(includeSelectors, excludeSelectors, diffs, p, evals) ==
    IF p > Len(diffs)
    THEN [done |-> TRUE, match |-> FALSE, err |-> NoErr, evals |-> evals]
    ELSE LET inc == IF includeConfigured(includeSelectors)
                    THEN scanSelectors("include", includeSelectors, 1, p, diffs[p], evals)
                    ELSE [selected |-> TRUE, err |-> NoErr, evals |-> evals]
             exc == scanSelectors("exclude", excludeSelectors, 1, p, diffs[p], inc.evals)
         IN  IF inc.err # NoErr
             THEN [done |-> TRUE, match |-> FALSE, err |-> inc.err, evals |-> inc.evals]
             ELSE IF ~inc.selected
             THEN pathLoop(includeSelectors, excludeSelectors, diffs, p + 1, inc.evals)
             ELSE IF exc.err # NoErr
             THEN [done |-> TRUE, match |-> FALSE, err |-> exc.err, evals |-> exc.evals]
             ELSE IF exc.selected
             THEN pathLoop(includeSelectors, excludeSelectors, diffs, p + 1, exc.evals)
             ELSE [done |-> TRUE, match |-> TRUE, err |-> NoErr, evals |-> exc.evals]

matchesPathsFilters(includeSelectors, excludeSelectors, diffs) ==
    pathLoop(includeSelectors, excludeSelectors, diffs, 1, <<>>)

\* the patterns and the changed paths of the model
Patterns == { <<"g", "l", "o", "b", ":", "s", "r", "c", "/", "*", ".", "g", "o">>, <<"g", "l", "o", "b", ":", "*", ".", "m", "d">>, <<"d", "o", "c", "s">>, <<"/", "x">>, <<"g", "l", "o", "b", ":", "[">>, <<"r", "e", "g", "e", "x", ":", "m", "d">>,
              <<"r", "e", "g", "e", "x", "p", ":", "[">> }

Paths == { <<"s", "r", "c", "/", "m", "a", "i", "n", ".", "g", "o">>, <<"d", "o", "c", "s", "/", "r", "e", "a", "d", "m", "e", ".", "m", "d">>, <<"r", "e", "a", "d", "m", "e", ".", "m", "d">> }

InitPaths ==
    /\ \E inc \in SeqsUpTo(Patterns, MaxSelectors),
          exc \in SeqsUpTo(Patterns, MaxSelectors),
          diffs \in SeqsUpTo(Paths, MaxPaths) :
         /\ Len(inc) + Len(exc) <= MaxSelectors
         /\ matchArgs = [include |-> inc, exclude |-> exc, diffs |-> diffs]
    /\ matchRet = NoMatchRet
    /\ CallsIdle
    /\ SortIdle
    /\ WalkIdle
    /\ SemverIdle
    /\ TagsIdle
    /\ CommitsIdle

\* the patterns are compiled and the selectors applied to the changed paths
Match ==
    /\ ~matchRet.done
    /\ LET inc == getPathSelectors(matchArgs.include)
           exc == getPathSelectors(matchArgs.exclude)
       IN  matchRet' =
             IF inc.err
             THEN [done |-> TRUE, match |-> FALSE, err |-> Err("compile", <<1>>),
                   evals |-> <<>>]
             ELSE IF exc.err
             THEN [done |-> TRUE, match |-> FALSE, err |-> Err("compile", <<2>>),
                   evals |-> <<>>]
             ELSE matchesPathsFilters(inc.selectors, exc.selectors, matchArgs.diffs)
    /\ UNCHANGED <<matchArgs, selectorVars, callVars, sortVars, walkVars,
                   semverVars, tagsVars, commitsVars>>

NextPaths == Match

SpecPaths == InitPaths /\ [][NextPaths]_vars

(***************************************************************************)
(* discoverBranchHistory                                                   *)
(***************************************************************************)
\* const limit = 20: the page size and the result limit
limit == 20

\* repo.ListCommits(limit, skip): the lim commits after the first skp
listCommits(lim, skp) ==
    SubSeq(history, skp + 1, Min(skp + lim, Len(history)))

\* repo.GetDiffPathsForCommitID(commitID)
getDiffPathsForCommitID(commitID) == history[commitID].paths

\* trimSlice(slice, limit)
trimSlice(slice, lim) == SubSeq(slice, 1, Min(lim, Len(slice)))

\* sub.IncludePaths == nil && sub.ExcludePaths == nil
noPathFilters == sub.IncludePaths.isNil /\ sub.ExcludePaths.isNil

historyExhaustedAfterFirstPage(cs) == TRUE

\* len(commits) == 0
historyExhausted(cs) == Len(cs) = 0

walkStopsNever(filtered) == FALSE

\* len(filteredCommits) >= limit
walkStops(filtered) == Len(filtered) >= limit

WalkReturn(cs, err) ==
    /\ walkPc' = "done"
    /\ walkRet' = [commits |-> cs, err |-> err]

\* the head of one iteration of the loop of discoverBranchHistory: the page
\* is listed, which may fail, and the selectors are compiled
WalkList ==
    /\ walkPc = "list"
    /\ listLog' = Append(listLog, skip)
    /\ \/ /\ WalkReturn(<<>>, Err("listCommits", <<skip>>))
          /\ UNCHANGED <<commits, pos, includePathSelectors,
                         excludePathSelectors, compileLog>>
       \/ LET page == listCommits(limit, skip)
              inc == getPathSelectors(sub.IncludePaths.items)
              exc == getPathSelectors(sub.ExcludePaths.items)
          IN IF noPathFilters
             THEN /\ WalkReturn([i \in 1..Len(page) |-> page[i].ID], NoErr)
                  /\ UNCHANGED <<commits, pos, includePathSelectors,
                                 excludePathSelectors, compileLog>>
             ELSE IF inc.err
             THEN /\ WalkReturn(<<>>, Err("include selector", <<>>))
                  /\ compileLog' = [compileLog EXCEPT !.include = @ + 1]
                  /\ UNCHANGED <<commits, pos, includePathSelectors, excludePathSelectors>>
             ELSE IF exc.err
             THEN /\ WalkReturn(<<>>, Err("exclude selector", <<>>))
                  /\ compileLog' = [include |-> compileLog.include + 1,
                                    exclude |-> compileLog.exclude + 1]
                  /\ includePathSelectors' = inc.selectors
                  /\ UNCHANGED <<commits, pos, excludePathSelectors>>
             ELSE /\ compileLog' = [include |-> compileLog.include + 1,
                                    exclude |-> compileLog.exclude + 1]
                  /\ includePathSelectors' = inc.selectors
                  /\ excludePathSelectors' = exc.selectors
                  /\ commits' = [i \in 1..Len(page) |-> page[i].ID]
                  /\ pos' = 1
                  /\ walkPc' = "filter"
                  /\ UNCHANGED walkRet
    /\ UNCHANGED <<history, sub, skip, filteredCommits, diffLog>>
    /\ UNCHANGED <<selectorVars, callVars, sortVars, matchVars, semverVars,
                   tagsVars, commitsVars>>

\* one iteration of the loop over the commits of the page: the changed paths
\* of the commit are fetched, which may fail, and matched
WalkCommit ==
    /\ walkPc = "filter"
    /\ pos <= Len(commits)
    /\ diffLog' = Append(diffLog, commits[pos])
    /\ \/ /\ WalkReturn(<<>>, Err("getDiffPaths", <<commits[pos]>>))
          /\ UNCHANGED <<filteredCommits, pos>>
       \/ LET meta == commits[pos]
              m == matchesPathsFilters(includePathSelectors, excludePathSelectors,
                                       getDiffPathsForCommitID(meta))
              kept == IF m.match THEN Append(filteredCommits, meta)
                      ELSE filteredCommits
          IN IF m.err # NoErr
             THEN /\ WalkReturn(<<>>, Err("match", <<meta>>))
                  /\ UNCHANGED <<filteredCommits, pos>>
             ELSE /\ filteredCommits' = kept
                  /\ IF walkStops(kept)
                     THEN /\ WalkReturn(trimSlice(kept, limit), NoErr)
                          /\ UNCHANGED pos
                     ELSE /\ pos' = pos + 1
                          /\ UNCHANGED <<walkPc, walkRet>>
    /\ UNCHANGED <<history, sub, skip, commits, includePathSelectors,
                   excludePathSelectors, listLog, compileLog>>
    /\ UNCHANGED <<selectorVars, callVars, sortVars, matchVars, semverVars,
                   tagsVars, commitsVars>>

\* the tail of one iteration of the loop of discoverBranchHistory: an empty
\* page ends the loop, any other page moves the offset on
WalkPageEnd ==
    /\ walkPc = "filter"
    /\ pos > Len(commits)
    /\ IF historyExhausted(commits)
       THEN /\ WalkReturn(trimSlice(filteredCommits, limit), NoErr)
            /\ UNCHANGED skip
       ELSE /\ skip' = skip + limit
            /\ walkPc' = "list"
            /\ UNCHANGED walkRet
    /\ UNCHANGED <<history, sub, filteredCommits, commits, pos, includePathSelectors,
                   excludePathSelectors, listLog, diffLog, compileLog>>
    /\ UNCHANGED <<selectorVars, callVars, sortVars, matchVars, semverVars,
                   tagsVars, commitsVars>>

\* the changed paths of the commits repeat with a period
PathsOfKind(r) ==
    IF r = 0 THEN << <<"s", "r", "c", "/", "m", "a", "i", "n", ".", "g", "o">> >>
    ELSE IF r = 1 THEN << <<"d", "o", "c", "s", "/", "r", "e", "a", "d", "m", "e", ".", "m", "d">> >>
    ELSE IF r = 2 THEN <<>>
    ELSE << <<"r", "e", "a", "d", "m", "e", ".", "m", "d">>, <<"s", "r", "c", "/", "m", "a", "i", "n", ".", "g", "o">> >>

\* the subscriptions of the model
Subscriptions ==
    { [IncludePaths |-> NilPaths, ExcludePaths |-> NilPaths],
      [IncludePaths |-> PathList(<< <<"g", "l", "o", "b", ":", "s", "r", "c", "/", "*", ".", "g", "o">> >>), ExcludePaths |-> NilPaths],
      [IncludePaths |-> NilPaths, ExcludePaths |-> PathList(<< <<"d", "o", "c", "s">> >>)],
      [IncludePaths |-> PathList(<<>>), ExcludePaths |-> NilPaths],
      [IncludePaths |-> PathList(<< <<"g", "l", "o", "b", ":", "*", ".", "m", "d">> >>), ExcludePaths |-> NilPaths],
      [IncludePaths |-> PathList(<< <<"g", "l", "o", "b", ":", "[">> >>), ExcludePaths |-> NilPaths],
      [IncludePaths |-> PathList(<< <<"s", "r", "c">> >>), ExcludePaths |-> PathList(<< <<"r", "e", "g", "e", "x", "p", ":", "[">> >>)] }

InitHistory ==
    /\ \E n \in 0..MaxCommits, period \in 1..MaxPeriod :
         \E phase \in 0..(period - 1) :
            history = [i \in 1..n |->
                         [ID |-> i, paths |-> PathsOfKind((i + phase) % period)]]
    /\ sub \in Subscriptions
    /\ skip = 0
    /\ filteredCommits = <<>>
    /\ commits = <<>>
    /\ pos = 1
    /\ includePathSelectors = <<>>
    /\ excludePathSelectors = <<>>
    /\ walkPc = "list"
    /\ walkRet = [commits |-> <<>>, err |-> NoErr]
    /\ listLog = <<>>
    /\ diffLog = <<>>
    /\ compileLog = [include |-> 0, exclude |-> 0]
    /\ CallsIdle
    /\ SortIdle
    /\ MatchIdle
    /\ SemverIdle
    /\ TagsIdle
    /\ CommitsIdle

NextHistory ==
    \/ WalkList
    \/ WalkCommit
    \/ WalkPageEnd

\* the loop of discoverBranchHistory keeps running until it returns
SpecHistory == InitHistory /\ [][NextHistory]_vars /\ WF_vars(NextHistory)

(***************************************************************************)
(* selectSemVerTags                                                        *)
(***************************************************************************)
\* the value of a decimal digit
digitVal(ch) == CHOOSE d \in 0..2 : <<"0", "1", "2">>[d + 1] = ch

isNumber(part) == part # <<>> /\ \A i \in 1..Len(part) : part[i] \in {"0", "1", "2"}

RECURSIVE toNumber(_)
toNumber(part) ==
    IF part = <<>> THEN 0
    ELSE 10 * toNumber(SubSeq(part, 1, Len(part) - 1)) + digitVal(part[Len(part)])

\* the dot-separated parts of a string
RECURSIVE splitDots(_)
splitDots(str) ==
    IF ~Contains(str, <<".">>) THEN <<str>>
    ELSE LET i == CHOOSE k \in 1..Len(str) :
                     str[k] = "." /\ \A j \in 1..(k - 1) : str[j] # "."
         IN  <<SubSeq(str, 1, i - 1)>> \o splitDots(SubSeq(str, i + 1, Len(str)))

\* semver.NewVersion(v): an optional v, then one to three numbers; minor and
\* patch default to 0, and the original string is kept
newVersion(v) ==
    LET parts == splitDots(TrimPrefix(v, <<"v">>))
        ok == Len(parts) \in 1..3 /\ \A i \in 1..Len(parts) : isNumber(parts[i])
    IN  [ok |-> ok,
         major |-> IF ok THEN toNumber(parts[1]) ELSE 0,
         minor |-> IF ok /\ Len(parts) >= 2 THEN toNumber(parts[2]) ELSE 0,
         patch |-> IF ok /\ Len(parts) >= 3 THEN toNumber(parts[3]) ELSE 0,
         original |-> v]

\* Version.Compare: -1, 0 or 1 by major, minor, patch
compareVersions(a, b) ==
    IF a.major # b.major THEN (IF a.major < b.major THEN -1 ELSE 1)
    ELSE IF a.minor # b.minor THEN (IF a.minor < b.minor THEN -1 ELSE 1)
    ELSE IF a.patch # b.patch THEN (IF a.patch < b.patch THEN -1 ELSE 1)
    ELSE 0

\* strings.Compare
stringsCompare(a, b) == IF a = b THEN 0 ELSE IF StrLess(a, b) THEN -1 ELSE 1

\* semver.NewConstraint(constraint): >= or < and a version
newConstraint(constraint) ==
    LET op == IF HasPrefix(constraint, <<">", "=">>) THEN <<">", "=">>
              ELSE IF HasPrefix(constraint, <<"<">>) THEN <<"<">>
              ELSE <<>>
        con == newVersion(TrimPrefix(constraint, op))
    IN  [ok |-> op # <<>> /\ con.ok, op |-> op, con |-> con]

\* Constraints.Check(sv)
check(svConstraint, sv) ==
    IF svConstraint.op = <<">", "=">>
    THEN compareVersions(sv, svConstraint.con) >= 0
    ELSE compareVersions(sv, svConstraint.con) < 0

semverCmpNoTieBreak(i, j) == compareVersions(j.Version, i.Version)

\* the comparison handed to slices.SortFunc by selectSemVerTags
semverCmp(i, j) ==
    LET comp == compareVersions(j.Version, i.Version)
    IN  IF comp # 0 THEN comp
        ELSE stringsCompare(j.Version.original, i.Version.original)

\* the comparison handed to slices.SortFunc by discoverTags
lexicalCmp(i, j) == stringsCompare(j.Tag, i.Tag)

\* cmp(x, y) < 0 for the comparison of the given kind
cmpLess(kind, x, y) ==
    IF kind = "semver" THEN semverCmp(x, y) < 0 ELSE lexicalCmp(x, y) < 0

\* slices.SortFunc: insertion sort, x moves left while cmp(x, left) < 0
RECURSIVE insertSortFunc(_, _, _)
insertSortFunc(kind, data, x) ==
    IF data = <<>> THEN <<x>>
    ELSE IF cmpLess(kind, x, data[Len(data)])
         THEN Append(insertSortFunc(kind, SubSeq(data, 1, Len(data) - 1), x),
                     data[Len(data)])
         ELSE Append(data, x)

RECURSIVE sortFuncFrom(_, _, _)
sortFuncFrom(kind, done, rest) ==
    IF rest = <<>> THEN done
    ELSE sortFuncFrom(kind, insertSortFunc(kind, done, Head(rest)), Tail(rest))

sortFunc(kind, data) == sortFuncFrom(kind, <<>>, data)

\* the loop of selectSemVerTags over the tags
RECURSIVE semVerTagsOf(_, _, _)
semVerTagsOf(tagList, constrained, svConstraint) ==
    IF tagList = <<>> THEN <<>>
    ELSE LET meta == Head(tagList)
             sv == newVersion(meta.Tag)
             rest == semVerTagsOf(Tail(tagList), constrained, svConstraint)
         IN  IF ~sv.ok THEN rest
             ELSE IF ~constrained \/ check(svConstraint, sv)
             THEN <<[TagMetadata |-> meta, Version |-> sv]>> \o rest
             ELSE rest

selectSemVerTags(tagList, constraint) ==
    LET svConstraint == newConstraint(constraint)
        svs == sortFunc("semver",
                        semVerTagsOf(tagList, constraint # <<>>, svConstraint))
    IN  IF constraint # <<>> /\ ~svConstraint.ok
        THEN [tags |-> <<>>, err |-> Err("constraint", constraint)]
        ELSE [tags |-> [k \in 1..Len(svs) |-> svs[k].TagMetadata], err |-> NoErr]

\* the tags and the constraints of the model
SemverTagNames == << <<"1", ".", "0">>, <<"1", ".", "0", ".", "0">>, <<"1", ".", "1", ".", "0">>, <<"b", "a", "d", "-", "t", "a", "g">>, <<"v", "2">> >>
SemverConstraints == { <<>>, <<">", "=", "1", ".", "1", ".", "0">>, <<"<", "1", ".", "1", ".", "0">>, <<"b", "a", "d">> }

\* the tag of the given name; its commit is the commit of that number
TagMeta(names, i) == [Tag |-> names[i], CommitID |-> i]

InitSemver ==
    /\ \E order \in SeqsUpTo(1..Len(SemverTagNames), MaxSemverTags) :
         /\ \A i, j \in 1..Len(order) : i # j => order[i] # order[j]
         /\ \E constraint \in SemverConstraints :
              svArgs = [tags |-> [k \in 1..Len(order) |->
                                    TagMeta(SemverTagNames, order[k])],
                        constraint |-> constraint]
    /\ svRet = [done |-> FALSE, tags |-> <<>>, err |-> NoErr]
    /\ CallsIdle
    /\ SortIdle
    /\ MatchIdle
    /\ WalkIdle
    /\ TagsIdle
    /\ CommitsIdle

\* selectSemVerTags(tags, constraint)
SelectSemVer ==
    /\ ~svRet.done
    /\ LET r == selectSemVerTags(svArgs.tags, svArgs.constraint)
       IN  svRet' = [done |-> TRUE, tags |-> r.tags, err |-> r.err]
    /\ UNCHANGED <<svArgs, selectorVars, callVars, sortVars, matchVars, walkVars,
                   tagsVars, commitsVars>>

NextSemver == SelectSemVer

SpecSemver == InitSemver /\ [][NextSemver]_vars

(***************************************************************************)
(* discoverCommits                                                         *)
(***************************************************************************)
\* the subscriptions of the model: not a git subscription, or a git
\* subscription with a tag strategy or with the default strategy
RepoSubscriptions ==
    { [Git |-> FALSE, CommitSelectionStrategy |-> "NewestFromBranch"],
      [Git |-> TRUE, CommitSelectionStrategy |-> "SemVer"],
      [Git |-> TRUE, CommitSelectionStrategy |-> "NewestFromBranch"] }

\* the switch on sub.CommitSelectionStrategy
usesTags(s) == s.CommitSelectionStrategy \in {"Lexical", "NewestTag", "SemVer"}

\* the commits built from what discoverTagsFn or discoverBranchHistoryFn
\* returned (n items) for the subscription at position i
discovered(i, n) ==
    [k \in 1..n |-> [ID |-> k,
                     Tag |-> IF usesTags(subs[i]) THEN k ELSE 0,
                     Branch |-> IF usesTags(subs[i]) THEN 0 ELSE i]]

failedResultsPartial(res) == res

\* return nil, fmt.Errorf(...)
failedResults(res) == <<>>

DiscoverReturn(res, err) ==
    /\ dcPc' = "done"
    /\ dcRet' = [results |-> res, err |-> err]

\* one iteration of the loop of discoverCommits over subs; the calls to the
\* collaborators are logged, and any of them may fail
DiscoverSub ==
    /\ dcPc = "loop"
    /\ dcPos <= Len(subs)
    /\ LET i == dcPos
           get == <<"credentialsDB.Get", i>>
           clone == <<"gitCloneFn", i>>
           discover == <<IF usesTags(subs[i]) THEN "discoverTagsFn"
                         ELSE "discoverBranchHistoryFn", i>>
       IN  IF ~subs[i].Git
           THEN /\ dcPos' = dcPos + 1
                /\ UNCHANGED <<dcResults, dcPc, dcRet, dcLog>>
           ELSE \/ /\ dcLog' = Append(dcLog, get)
                   /\ DiscoverReturn(failedResults(dcResults), Err("credentials", <<i>>))
                   /\ UNCHANGED <<dcPos, dcResults>>
                \/ /\ dcLog' = dcLog \o <<get, clone>>
                   /\ DiscoverReturn(failedResults(dcResults), Err("clone", <<i>>))
                   /\ UNCHANGED <<dcPos, dcResults>>
                \/ /\ dcLog' = dcLog \o <<get, clone, discover>>
                   /\ DiscoverReturn(failedResults(dcResults), Err("discover", <<i>>))
                   /\ UNCHANGED <<dcPos, dcResults>>
                \/ /\ dcLog' = dcLog \o <<get, clone, discover>>
                   /\ \E n \in 0..MaxDiscovered :
                        dcResults' = Append(dcResults,
                                            [RepoURL |-> i, Commits |-> discovered(i, n)])
                   /\ dcPos' = dcPos + 1
                   /\ UNCHANGED <<dcPc, dcRet>>
    /\ UNCHANGED subs
    /\ UNCHANGED <<selectorVars, callVars, sortVars, matchVars, walkVars,
                   semverVars, tagsVars>>

\* return results, nil
DiscoverEnd ==
    /\ dcPc = "loop"
    /\ dcPos > Len(subs)
    /\ DiscoverReturn(dcResults, NoErr)
    /\ UNCHANGED <<subs, dcPos, dcResults, dcLog>>
    /\ UNCHANGED <<selectorVars, callVars, sortVars, matchVars, walkVars,
                   semverVars, tagsVars>>

InitCommits ==
    /\ subs \in SeqsUpTo(RepoSubscriptions, MaxSubs)
    /\ dcPos = 1
    /\ dcResults = <<>>
    /\ dcPc = "loop"
    /\ dcRet = [results |-> <<>>, err |-> NoErr]
    /\ dcLog = <<>>
    /\ CallsIdle
    /\ SortIdle
    /\ MatchIdle
    /\ WalkIdle
    /\ SemverIdle
    /\ TagsIdle

NextCommits ==
    \/ DiscoverSub
    \/ DiscoverEnd

SpecCommits == InitCommits /\ [][NextCommits]_vars

(***************************************************************************)
(* discoverTags                                                            *)
(***************************************************************************)
\* allows(tagName, allowRegex); regexp.Compile never returns a nil regex
allows(tagName, regex) == regexMatchString(regex, tagName)

\* ignores(tagName, ignore)
ignores(tagName, ign) == \E i \in 1..Len(ign) : ign[i] = tagName

\* filterTags(tags, ignoreTags, allow)
filterTags(tagList, ignoreTags, allow) ==
    LET Kept(tag) == ~(ignores(tag.Tag, ignoreTags) \/ ~allows(tag.Tag, allow))
    IN  IF regexInvalid(allow)
        THEN [tags |-> <<>>, err |-> Err("allow regex", allow)]
        ELSE [tags |-> SelectSeq(tagList, Kept), err |-> NoErr]

\* the switch of discoverTags on sub.CommitSelectionStrategy
orderedTags(tagList, gitSub) ==
    IF gitSub.CommitSelectionStrategy = "SemVer"
    THEN selectSemVerTags(tagList, gitSub.SemverConstraint)
    ELSE IF gitSub.CommitSelectionStrategy = "Lexical"
    THEN [tags |-> sortFunc("lexical", tagList), err |-> NoErr]
    ELSE [tags |-> tagList, err |-> NoErr]

Called(call, arg) == [call |-> call, arg |-> arg]

TagsReturn(tagList, err) ==
    /\ dtPc' = "done"
    /\ dtRet' = [tags |-> tagList, err |-> err]

tagLoopStopsNever(filtered) == FALSE

\* len(filteredTags) >= limit
tagLoopStops(filtered) == Len(filtered) >= limit

\* discoverTags up to the loop over the tags: the tags are listed, which may
\* fail, filtered and ordered, and the selectors are compiled
TagsList ==
    /\ dtPc = "list"
    /\ \/ /\ dtLog' = <<Called("ListTags", 0)>>
          /\ TagsReturn(<<>>, Err("listTags", <<>>))
          /\ UNCHANGED <<dtTags, dtSelectors>>
       \/ LET f == filterTags(listedTags, tagSub.IgnoreTags, tagSub.AllowTags)
              o == orderedTags(f.tags, tagSub)
              inc == getPathSelectors(tagSub.IncludePaths.items)
              exc == getPathSelectors(tagSub.ExcludePaths.items)
              compiledInc == Called("getPathSelectors", 1)
              compiledExc == Called("getPathSelectors", 2)
          IN IF f.err # NoErr
             THEN /\ dtLog' = <<Called("ListTags", 0)>>
                  /\ TagsReturn(<<>>, f.err)
                  /\ UNCHANGED <<dtTags, dtSelectors>>
             ELSE IF o.err # NoErr
             THEN /\ dtLog' = <<Called("ListTags", 0)>>
                  /\ TagsReturn(<<>>, o.err)
                  /\ UNCHANGED <<dtTags, dtSelectors>>
             ELSE IF \/ Len(o.tags) = 0
                     \/ tagSub.IncludePaths.isNil /\ tagSub.ExcludePaths.isNil
             THEN /\ dtLog' = <<Called("ListTags", 0)>>
                  /\ TagsReturn(trimSlice(o.tags, limit), NoErr)
                  /\ UNCHANGED <<dtTags, dtSelectors>>
             ELSE IF inc.err
             THEN /\ dtLog' = <<Called("ListTags", 0), compiledInc>>
                  /\ TagsReturn(<<>>, Err("include selector", <<>>))
                  /\ UNCHANGED <<dtTags, dtSelectors>>
             ELSE IF exc.err
             THEN /\ dtLog' = <<Called("ListTags", 0), compiledInc, compiledExc>>
                  /\ TagsReturn(<<>>, Err("exclude selector", <<>>))
                  /\ UNCHANGED <<dtTags, dtSelectors>>
             ELSE /\ dtLog' = <<Called("ListTags", 0), compiledInc, compiledExc>>
                  /\ dtTags' = o.tags
                  /\ dtSelectors' = [include |-> inc.selectors,
                                     exclude |-> exc.selectors]
                  /\ dtPc' = "filter"
                  /\ UNCHANGED dtRet
    /\ UNCHANGED <<listedTags, tagSub, dtPos, dtFiltered>>
    /\ UNCHANGED <<selectorVars, callVars, sortVars, matchVars, walkVars,
                   semverVars, commitsVars>>

\* one iteration of the loop of discoverTags over the tags: the changed paths
\* of the tag's commit are fetched, which may fail, and matched
TagsCommit ==
    /\ dtPc = "filter"
    /\ dtPos <= Len(dtTags)
    /\ dtLog' = Append(dtLog, Called("GetDiffPathsForCommitID", dtTags[dtPos].CommitID))
    /\ \/ /\ TagsReturn(<<>>, Err("getDiffPaths", <<dtTags[dtPos].CommitID>>))
          /\ UNCHANGED <<dtFiltered, dtPos>>
       \/ LET meta == dtTags[dtPos]
              m == matchesPathsFilters(dtSelectors.include, dtSelectors.exclude,
                                       getDiffPathsForCommitID(meta.CommitID))
              kept == IF m.match THEN Append(dtFiltered, meta) ELSE dtFiltered
          IN IF m.err # NoErr
             THEN /\ TagsReturn(<<>>, Err("match", <<meta.CommitID>>))
                  /\ UNCHANGED <<dtFiltered, dtPos>>
             ELSE /\ dtFiltered' = kept
                  /\ IF tagLoopStops(kept)
                     THEN /\ TagsReturn(trimSlice(kept, limit), NoErr)
                          /\ UNCHANGED dtPos
                     ELSE /\ dtPos' = dtPos + 1
                          /\ UNCHANGED <<dtPc, dtRet>>
    /\ UNCHANGED <<listedTags, tagSub, dtTags, dtSelectors>>
    /\ UNCHANGED <<selectorVars, callVars, sortVars, matchVars, walkVars,
                   semverVars, commitsVars>>

\* the loop of discoverTags has gone through every tag
TagsEnd ==
    /\ dtPc = "filter"
    /\ dtPos > Len(dtTags)
    /\ TagsReturn(trimSlice(dtFiltered, limit), NoErr)
    /\ UNCHANGED <<listedTags, tagSub, dtTags, dtPos, dtFiltered, dtSelectors, dtLog>>
    /\ UNCHANGED <<selectorVars, callVars, sortVars, matchVars, walkVars,
                   semverVars, commitsVars>>

\* the name of the i-th tag in the order of ListTags: a version of three
\* digits, or for every fifth tag a name that is no version
ListedTagName(i) ==
    LET x == (7 * i) % 27
        d == <<"0", "1", "2">>
        a == d[(x \div 9) + 1]
        b == d[((x \div 3) % 3) + 1]
        c == d[(x % 3) + 1]
    IN  IF i % 5 = 0 THEN <<"t", a, b, c>> ELSE <<a, ".", b, ".", c>>

\* what the subscriptions of the model say about tags
TagFilters ==
    { [AllowTags |-> <<>>, IgnoreTags |-> <<>>, SemverConstraint |-> <<>>],
      [AllowTags |-> <<"1">>, IgnoreTags |-> << <<"2", ".", "1", ".", "0">> >>, SemverConstraint |-> <<">", "=", "1", ".", "1", ".", "0">>],
      [AllowTags |-> <<"[">>, IgnoreTags |-> <<>>, SemverConstraint |-> <<>>],
      [AllowTags |-> <<>>, IgnoreTags |-> <<>>, SemverConstraint |-> <<"b", "a", "d">>] }

\* what the subscriptions of the model say about paths
TagPathFilters ==
    { [IncludePaths |-> NilPaths, ExcludePaths |-> NilPaths],
      [IncludePaths |-> PathList(<< <<"g", "l", "o", "b", ":", "s", "r", "c", "/", "*", ".", "g", "o">> >>), ExcludePaths |-> NilPaths],
      [IncludePaths |-> PathList(<<>>), ExcludePaths |-> PathList(<< <<"d", "o", "c", "s">> >>)],
      [IncludePaths |-> NilPaths, ExcludePaths |-> PathList(<< <<"r", "e", "g", "e", "x", "p", ":", "[">> >>)] }

InitTags ==
    /\ \E n \in 0..MaxListedTags, period \in 1..MaxPeriod :
         /\ listedTags = [i \in 1..n |-> [Tag |-> ListedTagName(i), CommitID |-> i]]
         /\ history = [i \in 1..n |-> [ID |-> i, paths |-> PathsOfKind(i % period)]]
    /\ \E strategy \in {"SemVer", "Lexical", "NewestTag"},
          tf \in TagFilters, pf \in TagPathFilters :
         tagSub = [CommitSelectionStrategy |-> strategy,
                   AllowTags |-> tf.AllowTags, IgnoreTags |-> tf.IgnoreTags,
                   SemverConstraint |-> tf.SemverConstraint,
                   IncludePaths |-> pf.IncludePaths, ExcludePaths |-> pf.ExcludePaths]
    /\ dtTags = <<>>
    /\ dtPos = 1
    /\ dtFiltered = <<>>
    /\ dtSelectors = [include |-> <<>>, exclude |-> <<>>]
    /\ dtPc = "list"
    /\ dtRet = [tags |-> <<>>, err |-> NoErr]
    /\ dtLog = <<>>
    /\ WalkLocalsIdle
    /\ CallsIdle
    /\ SortIdle
    /\ MatchIdle
    /\ SemverIdle
    /\ CommitsIdle

NextTags ==
    \/ TagsList
    \/ TagsCommit
    \/ TagsEnd

SpecTags == InitTags /\ [][NextTags]_vars

(***************************************************************************)
(* Properties of the fan-out and of Select                                 *)
(***************************************************************************)
\* the fetches in flight in the whole process
InFlight == UNION { {<<c, i>> : i \in Fetching(c)} : c \in Calls }

\* C1: at every instant the number of getImageByTag fetches that are
\* executing, over all running getImagesByTags calls, is at most the
\* capacity of metaSem, and each of them holds a permit
C1_InFlightWithinCapacity ==
    /\ Cardinality(InFlight) <= metaSem
    /\ metaSem <= MetaSemCap

\* the pool is exhausted by fetches of both calls while a call waits for a
\* permit
C1_Witness ==
    /\ Cardinality(InFlight) = MetaSemCap
    /\ \A c \in Calls : Fetching(c) # {}
    /\ \E c \in Calls : pc[c] = "acquire"

\* the goroutines of call c whose getImageByTag returned an error
Failed(c) == {i \in Spawned(c) : task[c][i].out = "err"}

\* C2: when exactly one getImageByTag of a call returned an error and every
\* other fetch of the call succeeded, getImagesByTags returns that fetch's
\* error and a nil image list
C2_SingleFetchErrorReturned ==
    \A c \in Calls :
        ( /\ pc[c] = "done"
          /\ Len(tags[c]) > 0
          /\ ctx[c] # "parentCancelled"
          /\ Running(c) = {}
          /\ Cardinality(Failed(c)) = 1
          /\ \A i \in Spawned(c) \ Failed(c) : task[c][i].out = "ok" )
        => \A i \in Failed(c) :
               result[c] = [images |-> <<>>, err |-> Err("getImageByTag", tags[c][i])]

\* every tag of call c was fetched and Select returned without error
AllFetched(c) ==
    /\ pc[c] = "done"
    /\ Len(tags[c]) > 0
    /\ \A i \in 1..Len(tags[c]) : task[c][i] = [st |-> "done", out |-> "ok"]
    /\ result[c].err = NoErr

\* the images of the tags of call c, in listing order
Listed(c) == [i \in 1..Len(tags[c]) |-> getImageByTag(tags[c][i])]

\* C3: when every fetch succeeds, the list Select returns is the one
\* computed from the images in listing order, whatever the order in which
\* the images arrived on imageCh
C3_ResultIndependentOfArrival ==
    \A c \in Calls :
        AllFetched(c) =>
            result[c].images = selectFrom(sortImagesByDate(Listed(c)), <<>>).images

\* three images with equal timestamps arrived in an order that is neither
\* the listing order nor the sorted order, and all of them were returned
C3_Witness ==
    /\ AllFetched("c1")
    /\ Len(imageCh["c1"]) = 3
    /\ imageCh["c1"] # Listed("c1")
    /\ imageCh["c1"] # result["c1"].images
    /\ Len(result["c1"].images) = 3
    /\ \A i \in 1..3 : imageCh["c1"][i].CreatedAt = 1

\* the date-sorted candidates of call c
Candidates(c) == sortImagesByDate(imageCh[c])

\* the discovery limit of the claims: the number of candidates when it is 0
LimitOf(n) == IF discoveryLimit = 0 THEN n ELSE discoveryLimit

\* C4: without a platform constraint Select returns exactly the first
\* min(L, n) of the n sorted candidates, L = n for limit 0, so never more
\* than a positive limit and all of them for a limit of at least n
C4_TruncatesToLimit ==
    \A c \in Calls :
        (pc[c] = "done" /\ platform = NoPlatform /\ errCh[c] = 0 /\ Len(imageCh[c]) > 0
         /\ result[c].err.kind # "acquire")
        => /\ result[c].err = NoErr
           /\ result[c].images =
                 SubSeq(Candidates(c), 1,
                        Min(LimitOf(Len(imageCh[c])), Len(imageCh[c])))
           /\ discoveryLimit > 0 => Len(result[c].images) <= discoveryLimit
           /\ discoveryLimit >= Len(imageCh[c]) => result[c].images = Candidates(c)
           /\ discoveryLimit = 0 => result[c].images = Candidates(c)

\* five candidates, limit 0, all five returned
C4_Witness ==
    /\ pc["c1"] = "done"
    /\ platform = NoPlatform
    /\ discoveryLimit = 0
    /\ Len(imageCh["c1"]) = 5
    /\ Len(result["c1"].images) = 5

\* positions of the candidates that match the platform
Matching(cands) == {i \in 1..Len(cands) : cands[i].Digest \in platformDigests}

\* position of the k-th matching candidate
KthMatch(cands, k) ==
    CHOOSE i \in Matching(cands) :
        Cardinality({j \in Matching(cands) : j <= i}) = k

\* C5: under a platform constraint Select returns exactly the first L
\* matching candidates in sorted order, each the image resolved by digest
\* carrying the candidate's tag; it resolves the candidates in order up to
\* the L-th match and no further; no match gives an empty result, no error
C5_FirstMatchingCandidates ==
    \A c \in Calls :
        (pc[c] = "done" /\ platform # NoPlatform /\ errCh[c] = 0 /\ Len(imageCh[c]) > 0
         /\ result[c].err = NoErr)
        => LET cands == Candidates(c)
               L == LimitOf(Len(cands))
               m == Min(L, Cardinality(Matching(cands)))
               last == IF Cardinality(Matching(cands)) >= L
                       THEN KthMatch(cands, L)
                       ELSE Len(cands)
           IN  /\ Len(result[c].images) = m
               /\ \A k \in 1..m :
                     /\ result[c].images[k].Tag = cands[KthMatch(cands, k)].Tag
                     /\ result[c].images[k].Digest = cands[KthMatch(cands, k)].Digest
                     /\ result[c].images[k] # NilImage
               /\ digestLog[c] = [j \in 1..last |-> cands[j].Digest]

\* five candidates of which only the third and the fifth match, limit 2:
\* exactly those two are returned, under their own tags
C5_Witness ==
    /\ pc["c1"] = "done"
    /\ platform = Linux
    /\ discoveryLimit = 2
    /\ Len(imageCh["c1"]) = 5
    /\ Matching(Candidates("c1")) = {3, 5}
    /\ Len(result["c1"].images) = 2
    /\ result["c1"].images[1].Tag = Candidates("c1")[3].Tag
    /\ result["c1"].images[2].Tag = Candidates("c1")[5].Tag
    /\ Len(digestLog["c1"]) = 5

Count(s, x) == Cardinality({i \in 1..Len(s) : s[i] = x})

\* C7: in the slice sortImagesByDate leaves, of two images with different
\* timestamps the later comes first, of two with equal timestamps the one
\* with the lexically greater tag comes first, and the slice is a
\* permutation of the one it was given
C7_SortedByDateThenTag ==
    sortRet.done =>
        /\ \A i, j \in 1..Len(sortRet.images) :
              i < j =>
                /\ sortRet.images[i].CreatedAt >= sortRet.images[j].CreatedAt
                /\ sortRet.images[i].CreatedAt = sortRet.images[j].CreatedAt
                     => ~StrLess(sortRet.images[i].Tag, sortRet.images[j].Tag)
        /\ Len(sortRet.images) = Len(sortArg)
        /\ \A x \in SortImages : Count(sortRet.images, x) = Count(sortArg, x)

\* a slice with a tie on the date and a later image last was reordered
C7_Witness ==
    /\ sortRet.done
    /\ Len(sortArg) = 3
    /\ sortArg[1].CreatedAt = sortArg[2].CreatedAt
    /\ StrLess(sortArg[1].Tag, sortArg[2].Tag)
    /\ sortArg[3].CreatedAt > sortArg[2].CreatedAt
    /\ sortRet.images = <<sortArg[3], sortArg[2], sortArg[1]>>

(***************************************************************************)
(* Properties of matchesPathsFilters                                       *)
(***************************************************************************)
\* selector sel selects the path without error
Selects(sel, path) == selector(sel, path).selected /\ ~selector(sel, path).err

\* some changed path is included (or no include selector is given) and is
\* not excluded
SomePathPasses(includeSelectors, excludeSelectors, diffs) ==
    \E p \in 1..Len(diffs) :
        /\ \/ Len(includeSelectors) = 0
           \/ \E i \in 1..Len(includeSelectors) : Selects(includeSelectors[i], diffs[p])
        /\ \A e \in 1..Len(excludeSelectors) : ~Selects(excludeSelectors[e], diffs[p])

Compiled == ~getPathSelectors(matchArgs.include).err
            /\ ~getPathSelectors(matchArgs.exclude).err

\* C8: when no selector reports an error, matchesPathsFilters returns true
\* exactly when some changed path is included (or there is no include
\* selector) and not excluded; so false for no changed path, true for
\* include glob:src/*.go with src/main.go and docs/readme.md, false for
\* exclude glob:*.md with readme.md
C8_MatchIffSomePathPasses ==
    /\ (matchRet.done /\ Compiled /\ matchRet.err = NoErr)
         => /\ matchRet.match =
                 SomePathPasses(getPathSelectors(matchArgs.include).selectors,
                                getPathSelectors(matchArgs.exclude).selectors,
                                matchArgs.diffs)
            /\ matchArgs.diffs = <<>> => ~matchRet.match
            /\ ( /\ matchArgs.include = << <<"g", "l", "o", "b", ":", "s", "r", "c", "/", "*", ".", "g", "o">> >>
                 /\ matchArgs.exclude = <<>>
                 /\ matchArgs.diffs = << <<"s", "r", "c", "/", "m", "a", "i", "n", ".", "g", "o">>, <<"d", "o", "c", "s", "/", "r", "e", "a", "d", "m", "e", ".", "m", "d">> >> )
               => matchRet.match
            /\ ( /\ matchArgs.include = <<>>
                 /\ matchArgs.exclude = << <<"g", "l", "o", "b", ":", "*", ".", "m", "d">> >>
                 /\ matchArgs.diffs = << <<"r", "e", "a", "d", "m", "e", ".", "m", "d">> >> )
               => ~matchRet.match

\* include glob:src/*.go over src/main.go and docs/readme.md matched
C8_Witness ==
    /\ matchRet.done
    /\ matchArgs.include = << <<"g", "l", "o", "b", ":", "s", "r", "c", "/", "*", ".", "g", "o">> >>
    /\ matchArgs.exclude = <<>>
    /\ matchArgs.diffs = << <<"s", "r", "c", "/", "m", "a", "i", "n", ".", "g", "o">>, <<"d", "o", "c", "s", "/", "r", "e", "a", "d", "m", "e", ".", "m", "d">> >>
    /\ matchRet.match
    /\ Len(matchRet.evals) = 1

\* C9: an error of a selector aborts matchesPathsFilters: it is the last
\* selector applied, the call returns false with that error, and the call
\* returns an error only then
C9_SelectorErrorAborts ==
    (matchRet.done /\ Compiled)
      => /\ \A k \in 1..Len(matchRet.evals) :
               matchRet.evals[k].err
                 => /\ k = Len(matchRet.evals)
                    /\ ~matchRet.match
                    /\ matchRet.err = Err(matchRet.evals[k].list,
                                          <<matchRet.evals[k].sel, matchRet.evals[k].path>>)
         /\ matchRet.err # NoErr
              => /\ matchRet.evals # <<>>
                 /\ matchRet.evals[Len(matchRet.evals)].err
         /\ \A k \in 1..Len(matchRet.evals) :
               matchRet.evals[k].err =
                 selector(getPathSelectors(matchArgs[matchRet.evals[k].list]).selectors[matchRet.evals[k].sel],
                          matchArgs.diffs[matchRet.evals[k].path]).err

\* the second include selector fails on the first of two paths: the call
\* stops there, although the second path would have matched
C9_Witness ==
    /\ matchRet.done
    /\ matchArgs.include = << <<"g", "l", "o", "b", ":", "s", "r", "c", "/", "*", ".", "g", "o">>, <<"g", "l", "o", "b", ":", "[">> >>
    /\ matchArgs.diffs = << <<"r", "e", "a", "d", "m", "e", ".", "m", "d">>, <<"s", "r", "c", "/", "m", "a", "i", "n", ".", "g", "o">> >>
    /\ Len(matchRet.evals) = 2
    /\ matchRet.err = Err("include", <<2, 1>>)
    /\ ~matchRet.match

(***************************************************************************)
(* Properties of discoverBranchHistory                                     *)
(***************************************************************************)
\* the selectors of the subscription compile and report no error on any
\* changed path of the history
FiltersValid ==
    /\ ~getPathSelectors(sub.IncludePaths.items).err
    /\ ~getPathSelectors(sub.ExcludePaths.items).err
    /\ \A i \in 1..Len(history) :
          matchesPathsFilters(getPathSelectors(sub.IncludePaths.items).selectors,
                              getPathSelectors(sub.ExcludePaths.items).selectors,
                              history[i].paths).err = NoErr

\* the commits of the whole history whose changed paths satisfy the matcher
Qualifying ==
    {i \in 1..Len(history) :
        matchesPathsFilters(getPathSelectors(sub.IncludePaths.items).selectors,
                            getPathSelectors(sub.ExcludePaths.items).selectors,
                            history[i].paths).match}

\* discoverBranchHistory returned and no collaborator call failed
WalkedWithFilters ==
    /\ walkPc = "done"
    /\ ~noPathFilters
    /\ walkRet.err.kind \notin {"listCommits", "getDiffPaths"}
    /\ FiltersValid

\* C10: with path filters (whose selectors compile and evaluate), a finite
\* history and no collaborator error, discoverBranchHistory returns, without
\* error, exactly the first min(20, k) of the k qualifying commits in the
\* order of the history; and it always returns
C10_FirstQualifyingCommits ==
    /\ [](WalkedWithFilters
            => /\ walkRet.err = NoErr
               /\ LET q == Qualifying
                  IN  /\ Len(walkRet.commits) = Min(limit, Cardinality(q))
                      /\ \A k \in 1..Len(walkRet.commits) :
                            /\ walkRet.commits[k] \in q
                            /\ Cardinality({j \in q : j <= walkRet.commits[k]}) = k)
    /\ <>(walkPc = "done")

\* fewer than 20 of more than 40 commits qualify: the history is read to
\* its end, up to the first empty page, and fewer than 20 are returned
C10_Witness ==
    /\ WalkedWithFilters
    /\ Len(history) > 2 * limit
    /\ Len(walkRet.commits) > 0
    /\ Len(walkRet.commits) < limit
    /\ listLog = <<0, 20, 40, 60>>
    /\ Len(diffLog) = Len(history)

(***************************************************************************)
(* Properties of selectSemVerTags                                          *)
(***************************************************************************)
\* the tag parses as a semantic version that the constraint, if any, admits
Admitted(tag, constraint) ==
    /\ newVersion(tag).ok
    /\ constraint = <<>> \/ check(newConstraint(constraint), newVersion(tag))

\* version precedence of tag a is higher than that of tag b, or it is the
\* same and a is the lexically greater string
SemverBefore(a, b) ==
    LET va == newVersion(a)
        vb == newVersion(b)
        ka == <<va.major, va.minor, va.patch>>
        kb == <<vb.major, vb.minor, vb.patch>>
    IN  IF ka = kb THEN StrGreater(a, b)
        ELSE \E n \in 1..3 : /\ \A m \in 1..(n - 1) : ka[m] = kb[m]
                             /\ ka[n] > kb[n]

\* C11: selectSemVerTags fails on a non-empty invalid constraint; otherwise it
\* returns, without error, exactly the input tags that parse as semantic
\* versions and satisfy the constraint, by descending precedence and, among
\* equal precedence, by descending original tag string
C11_SemVerTagsSelectedAndOrdered ==
    svRet.done =>
        IF svArgs.constraint # <<>> /\ ~newConstraint(svArgs.constraint).ok
        THEN svRet.err # NoErr /\ svRet.tags = <<>>
        ELSE /\ svRet.err = NoErr
             /\ {svRet.tags[k] : k \in 1..Len(svRet.tags)}
                  = {svArgs.tags[k] : k \in
                       {n \in 1..Len(svArgs.tags) :
                          Admitted(svArgs.tags[n].Tag, svArgs.constraint)}}
             /\ \A i, j \in 1..Len(svRet.tags) :
                   i < j => SemverBefore(svRet.tags[i].Tag, svRet.tags[j].Tag)
             /\ (/\ svArgs.constraint = <<>>
                 /\ [k \in 1..Len(svArgs.tags) |-> svArgs.tags[k].Tag]
                      = << <<"1", ".", "0">>, <<"1", ".", "0", ".", "0">>, <<"1", ".", "1", ".", "0">>, <<"b", "a", "d", "-", "t", "a", "g">> >>)
                  => [k \in 1..Len(svRet.tags) |-> svRet.tags[k].Tag]
                       = << <<"1", ".", "1", ".", "0">>, <<"1", ".", "0", ".", "0">>, <<"1", ".", "0">> >>

\* the example: 1.0, 1.0.0, 1.1.0 and bad-tag without a constraint
C11_Witness ==
    /\ svRet.done
    /\ svArgs.constraint = <<>>
    /\ [k \in 1..Len(svArgs.tags) |-> svArgs.tags[k].Tag]
         = << <<"1", ".", "0">>, <<"1", ".", "0", ".", "0">>, <<"1", ".", "1", ".", "0">>, <<"b", "a", "d", "-", "t", "a", "g">> >>
    /\ Len(svRet.tags) = 3

(***************************************************************************)
(* Properties of discoverCommits                                           *)
(***************************************************************************)
\* the positions of the subscriptions with a git source
GitSubs == {i \in 1..Len(subs) : subs[i].Git}

\* the k-th subscription with a git source
KthGitSub(k) == CHOOSE i \in GitSubs : Cardinality({j \in GitSubs : j <= i}) = k

\* C12: discoverCommits works through the subscriptions in input order; on
\* success it returns one result per subscription with a git source, in input
\* order; on a failure for some subscription it returns no results with the
\* error, and no collaborator was called for a later subscription
C12_ResultPerGitSubOrNothing ==
    /\ \A a, b \in 1..Len(dcLog) : a < b => dcLog[a][2] <= dcLog[b][2]
    /\ dcPc = "done" =>
         IF dcRet.err = NoErr
         THEN /\ Len(dcRet.results) = Cardinality(GitSubs)
              /\ \A k \in 1..Len(dcRet.results) :
                    dcRet.results[k].RepoURL = KthGitSub(k)
         ELSE /\ dcRet.results = <<>>
              /\ \A a \in 1..Len(dcLog) : dcLog[a][2] <= dcRet.err.key[1]
              /\ dcLog[Len(dcLog)][2] = dcRet.err.key[1]

\* the second of three git subscriptions fails after the first has succeeded
C12_Witness ==
    /\ dcPc = "done"
    /\ dcRet.err # NoErr
    /\ Len(dcResults) = 1
    /\ Cardinality(GitSubs) = 3

(***************************************************************************)
(* Properties of discoverTags                                              *)
(***************************************************************************)
\* the triple ka is above the triple kb, or they are equal and string a is
\* the greater
KeyBefore(ka, kb, a, b) ==
    IF ka = kb THEN StrGreater(a, b)
    ELSE \E n \in 1..3 : /\ \A m \in 1..(n - 1) : ka[m] = kb[m]
                         /\ ka[n] > kb[n]

\* the positions in listedTags of the tags the allow expression and the
\* ignore list let through and, for SemVer, that are versions the constraint
\* admits
SelectableTags ==
    {i \in 1..Len(listedTags) :
        /\ regexMatchString(tagSub.AllowTags, listedTags[i].Tag)
        /\ \A k \in 1..Len(tagSub.IgnoreTags) : tagSub.IgnoreTags[k] # listedTags[i].Tag
        /\ tagSub.CommitSelectionStrategy = "SemVer"
             => Admitted(listedTags[i].Tag, tagSub.SemverConstraint)}

\* the selectable tags in the order of the strategy, as positions in listedTags
StrategyOrder ==
    LET key == [i \in 1..Len(listedTags) |->
                  LET v == newVersion(listedTags[i].Tag)
                  IN  <<v.major, v.minor, v.patch>>]
        Before(i, j) ==
            IF tagSub.CommitSelectionStrategy = "SemVer"
            THEN KeyBefore(key[i], key[j], listedTags[i].Tag, listedTags[j].Tag)
            ELSE IF tagSub.CommitSelectionStrategy = "Lexical"
            THEN StrGreater(listedTags[i].Tag, listedTags[j].Tag)
            ELSE i < j
        set == SelectableTags
    IN  [r \in 1..Cardinality(set) |->
           CHOOSE i \in set : Cardinality({j \in set : Before(j, i)}) = r - 1]

\* the arguments of the GetDiffPathsForCommitID calls of discoverTags, in order
RECURSIVE DiffCalls(_)
DiffCalls(log) ==
    IF log = <<>> THEN <<>>
    ELSE IF Head(log).call = "GetDiffPathsForCommitID"
    THEN <<Head(log).arg>> \o DiffCalls(Tail(log))
    ELSE DiffCalls(Tail(log))

\* discoverTags returned, the subscription is well-formed and no collaborator
\* call failed
TagsDiscovered ==
    /\ dtPc = "done"
    /\ dtRet.err.kind \notin {"listTags", "getDiffPaths", "match"}
    /\ ~regexInvalid(tagSub.AllowTags)
    /\ \/ tagSub.CommitSelectionStrategy # "SemVer"
       \/ tagSub.SemverConstraint = <<>>
       \/ newConstraint(tagSub.SemverConstraint).ok
    /\ ~getPathSelectors(tagSub.IncludePaths.items).err
    /\ ~getPathSelectors(tagSub.ExcludePaths.items).err

CancelledAtAcquire(c) == pc[c] = "acquire" /\ ctx[c] = "parentCancelled"

\* C14: when the parent context is cancelled while getImagesByTags is at the
\* acquisition of a permit, no goroutine is started for that tag or a later
\* one, and the call returns the acquisition error with no images
C14_CancelFailsAcquire ==
    /\ [][\A c \in Calls : CancelledAtAcquire(c) => Spawned(c)' = Spawned(c)]_vars
    /\ \A c \in Calls :
          CancelledAtAcquire(c)
            ~> (/\ pc[c] = "done"
                /\ result[c].err.kind = "acquire"
                /\ result[c].images = <<>>
                /\ Spawned(c) # 1..Len(tags[c]))

\* call c1 waited for a permit while every permit was held, the parent
\* cancelled, and the call has returned while the permits are still held
C14_Witness ==
    /\ pc["c1"] = "done"
    /\ ctx["c1"] = "parentCancelled"
    /\ result["c1"].err.kind = "acquire"
    /\ errCh["c1"] = 0
    /\ metaSem = MetaSemCap

\* C15: whenever a call has returned, none of the goroutines it started is
\* still running
C15_NoTaskRunsAfterReturn ==
    \A c \in Calls : pc[c] = "done" => Running(c) = {}

\* the permits held by the goroutines of all calls
PermitsOfTasks(cs) ==
    LET RECURSIVE Sum(_)
        Sum(set) == IF set = {} THEN 0
                    ELSE LET c == CHOOSE x \in set : TRUE
                         IN  Cardinality(Holding(c)) + Sum(set \ {c})
    IN  Sum(cs)

\* C20: the permits held are those of the goroutines that were started and
\* have not yet released; they never exceed the capacity; a permit is given
\* back only by a goroutine whose fetch has returned, one at a time and once
\* per goroutine; and when no goroutine runs every permit is back, also after
\* a call has returned early on a failed acquisition
C20_PermitsConserved ==
    /\ [](/\ metaSem = PermitsOfTasks(Calls)
          /\ metaSem \in 0..MetaSemCap
          /\ (\A c \in Calls : Running(c) = {}) => metaSem = 0)
    /\ [][/\ metaSem' < metaSem
             => /\ metaSem' = metaSem - 1
                /\ \E c \in Calls : \E i \in Holding(c) :
                      /\ task[c][i].st = "returned"
                      /\ task'[c][i].st = "released"
          /\ \A c \in Calls : \A i \in Spawned(c) :
                task[c][i].st \in {"released", "done"}
                  => task'[c][i].st \in {"released", "done"}]_vars

\* a call returned early on a failed acquisition while one of its goroutines
\* held a permit, and every permit has come back since
C20_Witness ==
    /\ pc["c1"] = "done"
    /\ result["c1"].err.kind = "acquire"
    /\ Spawned("c1") # {}
    /\ \A c \in Calls : Running(c) = {} /\ pc[c] = "done"
    /\ \E i \in Spawned("c1") : task["c1"][i].out = "nil"
    /\ metaSem = 0

(***************************************************************************)
(* Calls of discoverBranchHistory to its collaborators                     *)
(***************************************************************************)
\* C16: in one call of discoverBranchHistory the include patterns and the
\* exclude patterns are each compiled at most once
C16_CompiledAtMostOnce ==
    compileLog.include <= 1 /\ compileLog.exclude <= 1

\* C17: the skip offsets of the ListCommits requests of one call are 0, 20,
\* 40, ... in this order, and once 20 qualifying commits are accumulated no
\* ListCommits and no GetDiffPathsForCommitID call follows
C17_OffsetsAdvanceAndStop ==
    /\ [](\A k \in 1..Len(listLog) : listLog[k] = limit * (k - 1))
    /\ [][Len(filteredCommits) >= limit
            => listLog' = listLog /\ diffLog' = diffLog]_vars

\* 20 qualifying commits were found on the second page, before the history
\* was read to its end
C17_Witness ==
    /\ walkPc = "done"
    /\ Len(walkRet.commits) = limit
    /\ listLog = <<0, 20>>
    /\ Len(diffLog) < Len(history)

\* C18: with an empty include list and an empty exclude list, and ListCommits
\* not failing, discoverBranchHistory asks for ListCommits(20, 0) once, asks
\* for no changed paths and returns that page
C18_NoFiltersOnePage ==
    (/\ walkPc = "done"
     /\ sub.IncludePaths.items = <<>>
     /\ sub.ExcludePaths.items = <<>>
     /\ walkRet.err.kind # "listCommits")
        => /\ listLog = <<0>>
           /\ diffLog = <<>>
           /\ walkRet.err = NoErr
           /\ walkRet.commits = [i \in 1..Min(limit, Len(history)) |-> history[i].ID]

\* C19: when discoverBranchHistory returns because a pattern does not compile
\* or is malformed, no ListCommits and no GetDiffPathsForCommitID call has
\* been made
C19_ConfigErrorBeforeAnyFetch ==
    (/\ walkPc = "done"
     /\ walkRet.err.kind \in {"include selector", "exclude selector", "match"})
        => listLog = <<>> /\ diffLog = <<>>

\* one getImagesByTags call over three tags: more tags than permits
InitOverCapacity ==
    /\ repoTags = SubSeq(TagUniverse, 1, 3)
    /\ createdAt = [d \in Digests |-> 1]
    /\ platformDigests = {}
    /\ allowRegex = NilRegex
    /\ ignore = <<>>
    /\ platform = NoPlatform
    /\ discoveryLimit = 0
    /\ metaSem = 0
    /\ pc = [c \in Calls |-> IF c = "c1" THEN "start" ELSE "done"]
    /\ tags = [c \in Calls |-> <<>>]
    /\ idx = [c \in Calls |-> 0]
    /\ ctx = [c \in Calls |-> IF c = "c1" THEN "live" ELSE "cancelled"]
    /\ task = [c \in Calls |-> <<>>]
    /\ imageCh = [c \in Calls |-> <<>>]
    /\ errCh = [c \in Calls |-> 0]
    /\ result = [c \in Calls |-> [images |-> <<>>, err |-> NoErr]]
    /\ digestLog = [c \in Calls |-> <<>>]
    /\ SortIdle
    /\ MatchIdle
    /\ WalkIdle
    /\ SemverIdle
    /\ TagsIdle
    /\ CommitsIdle

\* a step of the program itself: the loop of getImagesByTags, an Acquire
\* whose permit is free or whose ctx is done, wg.Wait once the group is
\* empty, or a step of a task; cancelling the parent context is the
\* caller's choice and is not among them
Scheduled ==
    \E c \in Calls :
        \/ SelectStart(c)
        \/ AcquireOk(c)
        \/ AcquireFail(c)
        \/ Join(c)
        \/ \E i \in 1..Len(tags[c]) : TaskFetch(c, i)
        \/ \E i \in 1..Len(tags[c]) : TaskRelease(c, i)
        \/ \E i \in 1..Len(tags[c]) : TaskDone(c, i)

\* the scheduler runs some runnable goroutine, and getImageByTag returns:
\* while a step of the program is possible, one is eventually taken. Every
\* step moves a call or a task forward and none moves one back, so this is
\* all that fairness to each goroutine adds.
FairScheduling == WF_vars(Scheduled)

\* two calls sharing the pool, or one call with more tags than permits
SpecFanOut == (Init \/ InitOverCapacity) /\ [][Next]_vars /\ FairScheduling

\* C21: the fan-out cannot deadlock: the image channel never holds more than
\* one image per tag and the error channel at most one error (the index of
\* the tag that failed first), so no task
\* blocks on reporting; under fair scheduling every spawned task finishes
\* and every getImagesByTags call eventually returns, also with more tags
\* than permits and with several calls sharing the pool.
C21_FanOutTerminates ==
    /\ [](\A c \in Calls : /\ Len(imageCh[c]) <= Len(tags[c])
                           /\ errCh[c] \in 0..Len(tags[c]))
    /\ <>[](\A c \in Calls : /\ pc[c] = "done"
                             /\ \A i \in Spawned(c) : task[c][i].st = "done")

\* a call over more tags than permits has returned with every task finished
C21_Witness ==
    /\ pc["c1"] = "done"
    /\ Len(tags["c1"]) > MetaSemCap
    /\ Spawned("c1") = 1..Len(tags["c1"])
    /\ \A i \in Spawned("c1") : task["c1"][i].st = "done"
    /\ result["c1"].err = NoErr

====
